---- MODULE Spec2Model ----
(***************************************************************************)
(* A model of chess_cli.py: the interactive loop that lets a human play    *)
(* against a UCI engine, with an accuracy-driven move selector, an         *)
(* override token for the engine's reply and a two-ply undo.               *)
(*                                                                         *)
(* The rules library (chess.Board, chess.Move) and the engine process are  *)
(* external to the program.  They are modelled by a reduced rules provider *)
(* with the same interface: a NumFiles x NumRanks board of pawns, white on  *)
(* the first rank and black on the last, a pawn stepping one square        *)
(* forward onto an empty square or one square diagonally forward onto an   *)
(* enemy pawn.  What the program relies on is kept as the library has it:  *)
(*   - legal_moves holds only moves of the side to move;                   *)
(*   - push() does not check legality: it moves whatever piece stands on   *)
(*     the origin square, gives it the colour of the side to move, and     *)
(*     fails an assertion when the origin square is empty;                 *)
(*   - pop() restores the state saved by the matching push();              *)
(*   - Move.from_uci() checks the shape of the text only.                  *)
(* The engine answers a search with any legal move and an analysis with    *)
(* any ranking of up to multipv distinct legal moves, or fails.            *)
(***************************************************************************)
EXTENDS Integers, Sequences, FiniteSets, TLC

\* ---------------------------------------------------------------- bounds
\* move_stack never grows beyond MaxPlies entries in the model
MaxPlies == 5
\* an input line holds at most MaxTokens comma-separated tokens
MaxTokens == 3
\* random.random() is modelled as draw / DrawRes for draw in 0 .. DrawRes-1
DrawRes == 4

\* multipv=10 in choose_suboptimal_move
MultiPV == 10

\* ------------------------------------------- the reduced board's squares
FileNames == <<"a", "b">>
RankNames == <<"1", "2", "3">>
NumFiles == Len(FileNames)
NumRanks == Len(RankNames)

Files == 0 .. NumFiles - 1
Ranks == 0 .. NumRanks - 1
Squares == 0 .. NumFiles * NumRanks - 1

\* chess.square(file, rank)
square(file, rank) == rank * NumFiles + file
square_file(sq) == sq % NumFiles
square_rank(sq) == sq \div NumFiles

\* chess.SQUARE_NAMES
SquareName(sq) == <<FileNames[square_file(sq) + 1], RankNames[square_rank(sq) + 1]>>

\* chess.PIECE_SYMBOLS, without the leading None
PIECE_SYMBOLS == <<"p", "n", "b", "r", "q", "k">>

\* ------------------------------------------------- text: str operations
\* str.lower() on one character
LowerChar(c) ==
    CASE c = "B" -> "b"
      [] c = "W" -> "w"
      [] c = "Y" -> "y"
      [] c = "U" -> "u"
      [] c = "N" -> "n"
      [] c = "D" -> "d"
      [] c = "O" -> "o"
      [] OTHER -> c

\* str.lower()
lower(s) == [i \in 1 .. Len(s) |-> LowerChar(s[i])]

RECURSIVE lstrip(_)
lstrip(s) == IF s # <<>> /\ Head(s) = " " THEN lstrip(Tail(s)) ELSE s

RECURSIVE rstrip(_)
rstrip(s) ==
    IF s # <<>> /\ s[Len(s)] = " " THEN rstrip(SubSeq(s, 1, Len(s) - 1)) ELSE s

\* str.strip()
strip(s) == rstrip(lstrip(s))

\* str.split(","): the pieces between the commas, at least one piece
RECURSIVE split(_)
split(s) ==
    IF \E i \in 1 .. Len(s) : s[i] = ","
    THEN LET i == CHOOSE i \in 1 .. Len(s) :
                      s[i] = "," /\ \A j \in 1 .. i - 1 : s[j] # ","
         IN  <<SubSeq(s, 1, i - 1)>> \o split(SubSeq(s, i + 1, Len(s)))
    ELSE <<s>>

\* ---------------------------------------------------------- chess.Move
NoPromotion == ""
Move(from_square, to_square, promotion) ==
    [from_square |-> from_square, to_square |-> to_square, promotion |-> promotion]

\* chess.Move.null()
NullMove == Move(0, 0, NoPromotion)

\* the value standing for "from_uci raised InvalidMoveError"
InvalidMove == [error |-> "InvalidMoveError"]

IsSquareName(t) == \E sq \in Squares : SquareName(sq) = t
SquareIndex(t) == CHOOSE sq \in Squares : SquareName(sq) = t

\* chess.Move.from_uci
from_uci(uci) ==
    IF uci = <<"0", "0", "0", "0">> THEN NullMove
    ELSE IF Len(uci) \in {4, 5}
    THEN IF /\ IsSquareName(SubSeq(uci, 1, 2))
            /\ IsSquareName(SubSeq(uci, 3, 4))
            /\ (Len(uci) = 5 => \E k \in 1 .. Len(PIECE_SYMBOLS) : PIECE_SYMBOLS[k] = uci[5])
         THEN LET f == SquareIndex(SubSeq(uci, 1, 2))
                  t == SquareIndex(SubSeq(uci, 3, 4))
              IN  IF f = t THEN InvalidMove
                  ELSE Move(f, t, IF Len(uci) = 5 THEN uci[5] ELSE NoPromotion)
         ELSE InvalidMove
    ELSE InvalidMove

\* Move.uci(): the text of a move
uci(m) ==
    IF m = NullMove THEN <<"0", "0", "0", "0">>
    ELSE SquareName(m.from_square) \o SquareName(m.to_square)
         \o (IF m.promotion = NoPromotion THEN <<>> ELSE <<m.promotion>>)

\* --------------------------------------------------------- chess.Board
WHITE == "w"
BLACK == "b"
Opponent(color) == IF color = WHITE THEN BLACK ELSE WHITE

Empty == "."
\* Piece.symbol(): upper case for white, lower case for black
PawnOf(color) == IF color = WHITE THEN "P" ELSE "p"

\* chess.Board(): the starting position, nothing pushed
StartPlacement ==
    [sq \in Squares |->
        IF square_rank(sq) = 0 THEN PawnOf(WHITE)
        ELSE IF square_rank(sq) = NumRanks - 1 THEN PawnOf(BLACK)
        ELSE Empty]

StartBoard ==
    [placement |-> StartPlacement, turn |-> WHITE, stack |-> <<>>, move_stack |-> <<>>]

Forward(color) == IF color = WHITE THEN 1 ELSE -1

\* the moves a pawn of the side to move may make
PawnMoves(b, sq) ==
    LET r == square_rank(sq) + Forward(b.turn)
        f == square_file(sq)
    IN  IF r \notin Ranks THEN {}
        ELSE { Move(sq, square(f, r), NoPromotion) : x \in
                 { y \in {0} : b.placement[square(f, r)] = Empty } }
             \cup
             { Move(sq, square(g, r), NoPromotion) : g \in
                 { h \in Files : /\ h \in {f - 1, f + 1}
                                 /\ b.placement[square(h, r)] = PawnOf(Opponent(b.turn)) } }

\* board.legal_moves
legal_moves(b) ==
    UNION { PawnMoves(b, sq) : sq \in { s \in Squares : b.placement[s] = PawnOf(b.turn) } }

\* board.is_game_over(): a pawn stands on its last rank, a side has no pawn
\* left, or the side to move has no legal move
is_game_over(b) ==
    \/ \E sq \in Squares :
          \/ b.placement[sq] = PawnOf(WHITE) /\ square_rank(sq) = NumRanks - 1
          \/ b.placement[sq] = PawnOf(BLACK) /\ square_rank(sq) = 0
    \/ \E c \in {WHITE, BLACK} : \A sq \in Squares : b.placement[sq] # PawnOf(c)
    \/ legal_moves(b) = {}

\* board.push(move) fails its assertion when the origin square is empty
PushAsserts(b, m) == m # NullMove /\ b.placement[m.from_square] = Empty

\* board.push(move): no legality check; the piece on the origin square lands
\* on the target square in the colour of the side to move
push(b, m) ==
    [placement |->
        IF m = NullMove THEN b.placement
        ELSE [b.placement EXCEPT ![m.from_square] = Empty,
                                 ![m.to_square] = PawnOf(b.turn)],
     turn |-> Opponent(b.turn),
     stack |-> Append(b.stack, [placement |-> b.placement, turn |-> b.turn]),
     move_stack |-> Append(b.move_stack, m)]

\* board.pop(): back to the state saved by the last push
pop(b) ==
    LET n == Len(b.stack)
    IN  [placement |-> b.stack[n].placement,
         turn |-> b.stack[n].turn,
         stack |-> SubSeq(b.stack, 1, n - 1),
         move_stack |-> SubSeq(b.move_stack, 1, n - 1)]

\* ------------------------------------------------------------ rendering
\* None, where the program passes no move
NoneMove == [from_square |-> -1, to_square |-> -1, promotion |-> NoPromotion]

\* mutant: flip reverses the order of the rows only
print_board_RowsOnly(b, last_move, flip) ==
    LET ranks == IF ~flip THEN [i \in 1 .. NumRanks |-> NumRanks - i]
                 ELSE [i \in 1 .. NumRanks |-> i - 1]
        files == [j \in 1 .. NumFiles |-> j - 1]
    IN  [i \in 1 .. NumRanks |->
            [j \in 1 .. NumFiles |->
                LET sq == square(files[j], ranks[i])
                IN  [symbol |-> b.placement[sq],
                     highlight |-> /\ last_move # NoneMove
                                   /\ last_move # NullMove
                                   /\ sq \in {last_move.from_square, last_move.to_square}]]]

\* print_board: the rows of the table, top row first; each cell is the
\* symbol on the square and whether it is highlighted
print_board(b, last_move, flip) ==
    LET ranks == IF ~flip THEN [i \in 1 .. NumRanks |-> NumRanks - i]
                 ELSE [i \in 1 .. NumRanks |-> i - 1]
        files == IF ~flip THEN [j \in 1 .. NumFiles |-> j - 1]
                 ELSE [j \in 1 .. NumFiles |-> NumFiles - j]
    IN  [i \in 1 .. NumRanks |->
            [j \in 1 .. NumFiles |->
                LET sq == square(files[j], ranks[i])
                IN  [symbol |-> b.placement[sq],
                     highlight |-> /\ last_move # NoneMove
                                   /\ last_move # NullMove
                                   /\ sq \in {last_move.from_square, last_move.to_square}]]]

\* ------------------------------------------------------- input alphabet
\* every pawn-shaped move of either colour, whatever the position
MoveShapes ==
    { Move(sq, square(g, r), NoPromotion) :
        <<sq, g, r>> \in { t \in Squares \X Files \X Ranks :
            /\ t[2] \in {square_file(t[1]) - 1, square_file(t[1]), square_file(t[1]) + 1}
            /\ t[3] \in {square_rank(t[1]) - 1, square_rank(t[1]) + 1} } }

\* the tokens a line is made of: every pawn-shaped move, the null move, a
\* move with a promotion suffix, a padded move, malformed texts and "undo"
TokenPool ==
    { uci(m) : m \in MoveShapes }
    \cup { <<"0", "0", "0", "0">>,
           <<"a", "1", "a", "2", "q">>,
           <<" ", "a", "1", "a", "2", " ">>,
           <<"a", "1", "a", "1">>,
           <<"z", "9">>,
           <<>>,
           <<"u", "n", "d", "o">> }

\* the lines that ask for an undo
UndoTexts == { <<"u", "n", "d", "o">>, <<"U", "n", "d", "o">>, <<" ", "u", "n", "d", "o", " ">> }

\* the answers the user may give to a setup question
Answers == { <<"w">>, <<" ", "B">>, <<"y">>, <<"N", " ">>, <<"x">>, <<>> }

\* ------------------------------------------------------ get_player_move
UndoSignal == [signal |-> "undo"]

\* line 51: move.lower() == "undo", on the stripped line
IsUndo(text) == lower(strip(text)) = <<"u", "n", "d", "o">>

\* the text of a line to which one more token is typed
Typed(text, k, token) == IF k = 0 THEN token ELSE text \o <<",">> \o token

\* mutant: the token is not looked up in board.legal_moves
ValidateToken_NoLegality(b, m) == from_uci(strip(m))

\* lines 57-61 for one token m: the move it stands for when from_uci does
\* not raise and the move is in board.legal_moves, else InvalidMove
ValidateToken(b, m) ==
    LET chess_move == from_uci(strip(m))
    IN  IF chess_move # InvalidMove /\ chess_move \in legal_moves(b)
        THEN chess_move
        ELSE InvalidMove

\* ------------------------------------------------ choose_suboptimal_move
\* the values of --accuracy the model runs with
Accuracies == {0, 50, 100}

\* mutant: <= in place of <
Weakened_Inclusive(draw, acc) == 100 * draw <= DrawRes * (100 - acc)

\* line 96: random.random() < (1 - accuracy / 100), with random.random()
\* = draw / DrawRes
Weakened(draw, acc) == 100 * draw < DrawRes * (100 - acc)

\* what engine.analyse(..., multipv=10) may answer: a ranking, best first, of
\* distinct legal moves, as many as the engine reported lines for: at least
\* one and at most min(multipv, number of legal moves)
Rankings(b) ==
    LET legal == legal_moves(b)
        n == IF Cardinality(legal) < MultiPV THEN Cardinality(legal) ELSE MultiPV
    IN  UNION { { r \in [1 .. k -> legal] : \A i, j \in 1 .. k : r[i] = r[j] => i = j } :
                k \in 1 .. n }

\* mutant: the choice ranges over the whole list
WorseHalf_WholeList(candidates) == 1 .. Len(candidates)

\* line 106: the indices random.choice(moves[len(moves) // 2:]) draws from,
\* counted from 1
WorseHalf(candidates) == (Len(candidates) \div 2) + 1 .. Len(candidates)

\* the locals of no call in progress
NoSel ==
    [best_move |-> NoneMove, draw |-> -1, moves |-> <<>>, queries |-> <<>>,
     result |-> NoneMove]

\* lines 91-109: the locals of a call when it returns: the best move, the
\* draw, the candidate list, the engine queries issued and the move returned
Selections(b, acc) ==
    { [best_move |-> best, draw |-> d, moves |-> <<>>, queries |-> <<"play">>,
       result |-> best] :
         <<best, d>> \in { t \in legal_moves(b) \X (0 .. DrawRes - 1) :
                             ~Weakened(t[2], acc) } }
    \cup
    { [best_move |-> t[1], draw |-> t[2], moves |-> t[3],
       queries |-> <<"play", "analyse">>,
       result |-> IF Len(t[3]) > 1 THEN t[3][t[4]] ELSE t[1]] :
         t \in { u \in legal_moves(b) \X (0 .. DrawRes - 1) \X Rankings(b)
                        \X (1 .. MultiPV) :
                   /\ Weakened(u[2], acc)
                   /\ IF Len(u[3]) > 1 THEN u[4] \in WorseHalf(u[3]) ELSE u[4] = 1 } }

\* ------------------------------------------------------- main: helpers
\* no move of the player stands on the board
NoTurn == [board |-> StartBoard, move_stack |-> <<>>, none |-> TRUE]

\* mutant: the board is popped once
UndoBoard_OnePop(b) == pop(b)

\* lines 161-162: board.pop() twice
UndoBoard(b) == pop(pop(b))

\* mutant: move_stack is popped once
UndoHistory_OnePop(h) == SubSeq(h, 1, Len(h) - 1)

\* lines 163-164: move_stack.pop() twice
UndoHistory(h) == SubSeq(h, 1, Len(h) - 2)

\* mutant: the override is not looked at
ReplyMove_IgnoresOverride(player_moves, computed) == computed

\* lines 184-186: the move applied for the engine
ReplyMove(player_moves, computed) ==
    IF Len(player_moves) > 1 THEN player_moves[2] ELSE computed

\* ----------------------------------------------------------------- state
VARIABLES
    pc,               \* where main() stands
    engine,           \* the engine session: "running" or "quit"
    quits,            \* how many times engine.quit() was called
    stockfish_color,  \* "" until answered, then "w" or "b"
    flip_board,       \* the answer to the flip question
    accuracy,         \* --accuracy
    board,            \* the chess.Board
    move_stack,       \* main's own list of the moves applied
    line,             \* get_player_move: the text of the line read last, while
                      \* the call lasts
    valid_moves,      \* get_player_move: the moves validated so far
    moves,            \* what get_player_move returned to main
    sel,              \* the locals of choose_suboptimal_move at its return
    console,          \* the last table rendered and what the last step printed
    turn              \* history: who made each ply of move_stack, and the
                      \* board and move_stack as they were before the
                      \* player's latest move, until an undo removes it

vars ==
    <<pc, engine, quits, stockfish_color, flip_board, accuracy, board,
      move_stack, line, valid_moves, moves, sel, console, turn>>

config == <<stockfish_color, flip_board, accuracy>>
reading == <<line, valid_moves>>

Init ==
    /\ pc = "ask_color"
    /\ engine = "running"
    /\ quits = 0
    /\ stockfish_color = ""
    /\ flip_board = FALSE
    /\ accuracy \in Accuracies
    /\ board = StartBoard
    /\ move_stack = <<>>
    /\ line = <<>>
    /\ valid_moves = <<>>
    /\ moves = <<>>
    /\ sel = NoSel
    /\ console = [table |-> <<>>, out |-> <<>>]
    /\ turn = [by |-> <<>>, before |-> NoTurn]

\* mutant: the loop condition is not checked
LoopHead_NoCheck(b) == "await_human"

\* line 156: the loop condition, and where main() goes from it
LoopHead(b) == IF is_game_over(b) THEN "game_over" ELSE "await_human"

\* lines 16-29: one answer to the colour question
ask_stockfish_color(answer) ==
    /\ pc = "ask_color"
    /\ LET color == lower(strip(answer))
       IN  IF color \in {<<"w">>, <<"b">>}
           THEN /\ stockfish_color' = color[1]
                /\ pc' = "ask_flip"
                /\ console' = [console EXCEPT !.out = <<>>]
           ELSE /\ console' = [console EXCEPT !.out = <<"Invalid input.">>]
                /\ UNCHANGED <<pc, stockfish_color>>
    /\ UNCHANGED <<engine, quits, flip_board, accuracy, board, move_stack, reading, moves, sel, turn>>

\* lines 32-43 and 140-141: one answer to the flip question; then the board
\* and the move list are created
ask_flip_board(answer) ==
    /\ pc = "ask_flip"
    /\ LET flip == lower(strip(answer))
       IN  IF flip \in {<<"y">>, <<"n">>}
           THEN /\ flip_board' = (flip = <<"y">>)
                /\ board' = StartBoard
                /\ move_stack' = <<>>
                /\ pc' = "start"
                /\ console' = [console EXCEPT !.out = <<>>]
           ELSE /\ console' = [console EXCEPT !.out = <<"Invalid input.">>]
                /\ UNCHANGED <<pc, flip_board, board, move_stack>>
    /\ UNCHANGED <<engine, quits, stockfish_color, accuracy, reading, moves, sel, turn>>

\* mutant: the engine opens whatever its colour
StartGame_EngineOpens ==
    /\ pc = "start"
    /\ pc' = "opening_search"
    /\ console' = [console EXCEPT !.out = <<"Stockfish is playing as white.">>]
    /\ UNCHANGED <<engine, quits, config, board, move_stack, reading, moves, sel, turn>>

\* lines 143-154: who opens
StartGame ==
    /\ pc = "start"
    /\ IF stockfish_color = "w"
       THEN /\ pc' = "opening_search"
            /\ console' = [console EXCEPT !.out = <<"Stockfish is playing as white.">>]
       ELSE /\ pc' = LoopHead(board)
            /\ console' = [console EXCEPT !.out = <<"Stockfish is playing as black.">>]
    /\ UNCHANGED <<engine, quits, config, board, move_stack, reading, moves, sel, turn>>

\* lines 91-109, called from line 146 or line 180, when the engine answers
choose_suboptimal_move ==
    /\ pc \in {"opening_search", "reply_search"}
    /\ \E s \in Selections(board, accuracy) : sel' = s
    /\ pc' = IF pc = "opening_search" THEN "opening_apply" ELSE "reply_apply"
    /\ console' = [console EXCEPT !.out = <<>>]
    /\ UNCHANGED <<engine, quits, config, board, move_stack, reading, moves, turn>>

\* lines 93 and 98: the engine process fails during a query; the exception
\* is caught nowhere and ends main() before line 199
EngineFails ==
    /\ pc \in {"opening_search", "reply_search"}
    /\ pc' = "crashed"
    /\ console' = [console EXCEPT !.out = <<"Traceback">>]
    /\ UNCHANGED <<engine, quits, config, board, move_stack, reading, moves, sel, turn>>

\* lines 149-152: the engine's opening move is applied
ApplyOpening ==
    /\ pc = "opening_apply"
    /\ LET stockfish_move == sel.result
       IN  /\ board' = push(board, stockfish_move)
           /\ move_stack' = Append(move_stack, stockfish_move)
           /\ console' = [table |-> print_board(board', stockfish_move, flip_board),
                          out |-> <<"Engine played">>]
    /\ pc' = LoopHead(board')
    /\ sel' = NoSel
    /\ turn' = [turn EXCEPT !.by = Append(@, "engine")]
    /\ UNCHANGED <<engine, quits, config, reading, moves>>

\* lines 48-52: the line read is "undo"
ReadUndo(text) ==
    /\ pc = "await_human"
    /\ IsUndo(text)
    /\ moves' = <<UndoSignal>>
    /\ line' = <<>>
    /\ valid_moves' = <<>>
    /\ pc' = "handle"
    /\ console' = [console EXCEPT !.out = <<>>]
    /\ UNCHANGED <<engine, quits, config, board, move_stack, sel, turn>>

\* mutant: a bad token ends the loop, and the moves validated before it are
\* returned
CheckToken_KeepsValidated(token) ==
    /\ pc \in {"await_human", "validating"}
    /\ Len(valid_moves) < MaxTokens
    /\ LET k == Len(valid_moves)
           text == Typed(line, k, token)
           m == split(strip(text))[k + 1]
           chess_move == ValidateToken(board, m)
       IN  /\ ~IsUndo(text)
           /\ Len(split(strip(text))) = k + 1
           /\ IF chess_move # InvalidMove
              THEN /\ valid_moves' = Append(valid_moves, chess_move)
                   /\ line' = text
                   /\ pc' = "validating"
                   /\ moves' = moves
                   /\ console' = [console EXCEPT !.out = <<>>]
              ELSE /\ valid_moves' = <<>>
                   /\ line' = IF k = 0 THEN text ELSE <<>>
                   /\ pc' = IF k = 0 THEN "await_human" ELSE "handle"
                   /\ moves' = IF k = 0 THEN moves ELSE valid_moves
                   /\ console' = [console EXCEPT !.out = <<"Invalid move.">>]
    /\ UNCHANGED <<engine, quits, config, board, move_stack, sel, turn>>

\* lines 53-64: one pass of the loop over move.split(","), for a line that
\* is not "undo" and whose next token is the one given.  The token checked
\* is the one split() finds in the text typed so far.  An invalid token
\* prints the error and goes back to the prompt.
CheckToken(token) ==
    /\ pc \in {"await_human", "validating"}
    /\ Len(valid_moves) < MaxTokens
    /\ LET k == Len(valid_moves)
           text == Typed(line, k, token)
           m == split(strip(text))[k + 1]
           chess_move == ValidateToken(board, m)
       IN  /\ ~IsUndo(text)
           /\ Len(split(strip(text))) = k + 1
           /\ IF chess_move # InvalidMove
              THEN /\ valid_moves' = Append(valid_moves, chess_move)
                   /\ line' = text
                   /\ pc' = "validating"
                   /\ console' = [console EXCEPT !.out = <<>>]
              ELSE /\ valid_moves' = <<>>
                   /\ line' = text
                   /\ pc' = "await_human"
                   /\ console' = [console EXCEPT !.out = <<"Invalid move.">>]
    /\ UNCHANGED <<engine, quits, config, board, move_stack, moves, sel, turn>>

\* lines 65-66: the line is exhausted with every token valid
ReturnMoves ==
    /\ pc = "validating"
    /\ Len(move_stack) + 2 <= MaxPlies
    /\ moves' = valid_moves
    /\ valid_moves' = <<>>
    /\ line' = <<>>
    /\ pc' = "handle"
    /\ UNCHANGED <<engine, quits, config, board, move_stack, sel, console, turn>>

\* lines 159-169: an undo request
HandleUndo ==
    /\ pc = "handle"
    /\ moves[1] = UndoSignal
    /\ IF Len(move_stack) >= 2
       THEN /\ board' = UndoBoard(board)
            /\ move_stack' = UndoHistory(move_stack)
            /\ console' = [table |-> print_board(board', NoneMove, flip_board),
                           out |-> <<"Last move undone.">>]
            /\ turn' = [by |-> SubSeq(turn.by, 1, Len(turn.by) - 2), before |-> NoTurn]
       ELSE /\ console' = [console EXCEPT !.out = <<"Cannot undo.">>]
            /\ UNCHANGED <<board, move_stack, turn>>
    /\ pc' = LoopHead(board')
    /\ moves' = <<>>
    /\ UNCHANGED <<engine, quits, config, reading, sel>>

\* mutant: no game-over check after the player's move
ApplyPlayerMove_NoBreak ==
    /\ pc = "handle"
    /\ moves[1] # UndoSignal
    /\ board' = push(board, moves[1])
    /\ move_stack' = Append(move_stack, moves[1])
    /\ console' = [table |-> print_board(board', moves[1], flip_board), out |-> <<>>]
    /\ pc' = "reply_search"
    /\ turn' = [by |-> Append(turn.by, "human"),
                before |-> [board |-> board, move_stack |-> move_stack, none |-> FALSE]]
    /\ UNCHANGED <<engine, quits, config, reading, moves, sel>>

\* lines 171-177: the player's move is applied
ApplyPlayerMove ==
    /\ pc = "handle"
    /\ moves[1] # UndoSignal
    /\ board' = push(board, moves[1])
    /\ move_stack' = Append(move_stack, moves[1])
    /\ console' = [table |-> print_board(board', moves[1], flip_board), out |-> <<>>]
    /\ pc' = IF is_game_over(board') THEN "game_over" ELSE "reply_search"
    /\ turn' = [by |-> Append(turn.by, "human"),
                before |-> [board |-> board, move_stack |-> move_stack, none |-> FALSE]]
    /\ UNCHANGED <<engine, quits, config, reading, moves, sel>>

\* board.push() stopped by its assertion: the move is recorded, no piece moves
PushFailed(b, m) ==
    [b EXCEPT !.stack = Append(b.stack, [placement |-> b.placement, turn |-> b.turn]),
              !.move_stack = Append(b.move_stack, m)]

\* lines 184-195: the engine's reply, or the override in its place, is applied
ApplyReply ==
    /\ pc = "reply_apply"
    /\ LET overridden == Len(moves) > 1
           stockfish_move == ReplyMove(moves, sel.result)
           said == IF overridden THEN <<"Move overridden">> ELSE <<>>
       IN  IF PushAsserts(board, stockfish_move)
           THEN /\ board' = PushFailed(board, stockfish_move)
                /\ pc' = "crashed"
                /\ console' = [console EXCEPT !.out = said \o <<"Traceback">>]
                /\ UNCHANGED <<move_stack, moves, sel, turn>>
           ELSE /\ board' = push(board, stockfish_move)
                /\ move_stack' = Append(move_stack, stockfish_move)
                /\ console' = [table |-> print_board(board', stockfish_move, flip_board),
                               out |-> said \o <<"Engine played">>]
                /\ pc' = LoopHead(board')
                /\ moves' = <<>>
                /\ sel' = NoSel
                /\ turn' = [turn EXCEPT
                              !.by = Append(@, IF overridden THEN "override" ELSE "engine")]
    /\ UNCHANGED <<engine, quits, config, reading>>

\* lines 197-199: the result is printed and the engine is shut down
GameOver ==
    /\ pc = "game_over"
    /\ console' = [console EXCEPT !.out = <<"Game over.">>]
    /\ engine' = "quit"
    /\ quits' = quits + 1
    /\ pc' = "done"
    /\ UNCHANGED <<config, board, move_stack, reading, moves, sel, turn>>

Next ==
    \/ \E answer \in Answers : ask_stockfish_color(answer)
    \/ \E answer \in Answers : ask_flip_board(answer)
    \/ StartGame
    \/ choose_suboptimal_move
    \/ EngineFails
    \/ ApplyOpening
    \/ \E text \in UndoTexts : ReadUndo(text)
    \/ \E token \in TokenPool : CheckToken(token)
    \/ ReturnMoves
    \/ HandleUndo
    \/ ApplyPlayerMove
    \/ ApplyReply
    \/ GameOver

Spec == Init /\ [][Next]_vars
\* ================================================================ claims
\* the last entry of a non-empty sequence
Last(h) == h[Len(h)]

RECURSIVE Replay(_)
\* the board the rules provider reaches by pushing the moves of h, in order,
\* from the starting position
Replay(h) == IF h = <<>> THEN StartBoard ELSE push(Replay(SubSeq(h, 1, Len(h) - 1)), Last(h))

\* main() has appended a move to its move_stack in this step
PlyApplied == Len(move_stack') = Len(move_stack) + 1

\* get_player_move stands at the prompt or inside its loop
AtPrompt == pc \in {"await_human", "validating"}

\* this step of get_player_move rejects the line in line'
LineRejected ==
    /\ AtPrompt
    /\ pc' = "await_human"
    /\ console'.out = <<"Invalid move.">>
    /\ line' # <<>>

\* this step of get_player_move returns the moves of the line in line
LineAccepted == pc = "validating" /\ pc' = "handle"

\* the tokens of a line, as typed between the commas
TokensOf(text) == split(strip(text))

\* a token is a well-formed move identifier
WellFormed(token) == from_uci(strip(token)) # InvalidMove

\* C1: every ply main() applies to the board (opening ply, human ply, engine
\* reply, override) is a legal move of the position it is applied to.
C1_EveryAppliedPlyLegal ==
    [][PlyApplied => Last(move_stack') \in legal_moves(board)]_vars

\* C2: a two-token line whose first token is legal and whose second token is
\* well-formed is accepted, and the second token is then applied verbatim as
\* the engine's next ply.  Stated for the second tokens the claim's example
\* is about: a reply that is legal for the engine once the first move is made.
C2_WellFormedOverrideAccepted ==
    [][/\ (/\ pc = "validating"
           /\ Len(valid_moves) = 1
           /\ line' # line
           /\ Len(TokensOf(line')) = 2
           /\ WellFormed(TokensOf(line')[2])
           /\ from_uci(strip(TokensOf(line')[2]))
                 \in legal_moves(push(board, valid_moves[1])))
          => /\ pc' = "validating"
             /\ valid_moves' = <<valid_moves[1], from_uci(strip(TokensOf(line')[2]))>>
       /\ (pc = "reply_apply" /\ Len(moves) = 2 /\ PlyApplied)
          => Last(move_stack') = moves[2]]_vars

\* C3: a line other than "undo" is accepted exactly when every token of it
\* is a well-formed move identifier and a legal move of the position that is
\* current when the line is read; otherwise the line is rejected and the
\* prompt repeated.  An accepted line's first move is then applied.
C3_AcceptedIffEveryTokenLegal ==
    [][/\ AtPrompt /\ pc' # "handle" => board' = board
       /\ LineAccepted =>
             LET tokens == TokensOf(line)
             IN  /\ ~IsUndo(line)
                 /\ Len(moves') = Len(tokens)
                 /\ \A i \in 1 .. Len(tokens) :
                       /\ WellFormed(tokens[i])
                       /\ from_uci(strip(tokens[i])) \in legal_moves(board)
                       /\ moves'[i] = from_uci(strip(tokens[i]))
       /\ LineRejected =>
             LET tokens == TokensOf(line')
             IN  \E i \in 1 .. Len(tokens) :
                       \/ ~WellFormed(tokens[i])
                       \/ from_uci(strip(tokens[i])) \notin legal_moves(board)
       /\ (pc = "handle" /\ moves[1] # UndoSignal) =>
             /\ moves[1] \in legal_moves(board)
             /\ board' = push(board, moves[1])]_vars

\* C3 witness: after the engine's opening ply a line was rejected for a
\* well-formed token outside the legal-move set
C3_Witness ==
    /\ pc = "await_human"
    /\ stockfish_color = "w"
    /\ Len(move_stack) = 1
    /\ console.out = <<"Invalid move.">>
    /\ line # <<>>
    /\ Len(TokensOf(line)) = 1
    /\ WellFormed(line)
    /\ from_uci(strip(line)) # NullMove

\* C4: get_player_move returns the undo signal or a list of exactly one or
\* two moves, never an empty list and never three or more.
C4_ReturnsOneOrTwoMoves ==
    pc = "handle" => \/ moves = <<UndoSignal>>
                     \/ Len(moves) \in {1, 2}

\* C5: wherever main() waits for input or has just checked for game over,
\* its move_stack is the sequence of moves on the board, and replaying it
\* from the starting position gives the board.
AtWaitOrCheck ==
    pc \in {"await_human", "validating", "handle", "reply_search", "game_over", "done"}

C5_HistoryIsBoard ==
    AtWaitOrCheck => /\ move_stack = board.move_stack
                     /\ Len(board.stack) = Len(move_stack)
                     /\ board = Replay(move_stack)

\* C5 witness: at the prompt with an override as the latest ply on the board
C5_Witness ==
    /\ pc = "await_human"
    /\ Len(move_stack) >= 2
    /\ Last(turn.by) = "override"

\* C6: an undo removes exactly the two latest plies from the board and from
\* move_stack when move_stack holds two or more, and nothing otherwise.
UndoStep == pc = "handle" /\ moves[1] = UndoSignal /\ pc' # pc

C6_UndoRemovesTwoOrNone ==
    [][UndoStep =>
         IF Len(move_stack) >= 2
         THEN /\ move_stack' = SubSeq(move_stack, 1, Len(move_stack) - 2)
              /\ board'.move_stack = SubSeq(board.move_stack, 1, Len(board.move_stack) - 2)
              /\ board'.placement = board.stack[Len(board.stack) - 1].placement
              /\ board'.turn = board.stack[Len(board.stack) - 1].turn
         ELSE board' = board /\ move_stack' = move_stack]_vars

\* C6 witness: an undo was refused with one ply on the board
C6_Witness ==
    /\ pc = "await_human"
    /\ console.out = <<"Cannot undo.">>
    /\ Len(move_stack) = 1

\* C7: an undo after a completed turn (a human ply and the reply to it)
\* restores the board and move_stack to what they were before that human
\* ply; with the engine as black and two plies played that is the starting
\* position and an empty move_stack.
C7_UndoInvertsTurn ==
    [][UndoStep =>
         /\ (~turn.before.none /\ Len(move_stack) >= 2) =>
               /\ board' = turn.before.board
               /\ move_stack' = turn.before.move_stack
         /\ (stockfish_color = "b" /\ Len(move_stack) = 2) =>
               /\ board' = StartBoard
               /\ move_stack' = <<>>]_vars

\* C7 witness: the starting position restored by an undo, engine as black
C7_Witness ==
    /\ pc = "await_human"
    /\ stockfish_color = "b"
    /\ console.out = <<"Last move undone.">>
    /\ board = StartBoard
    /\ move_stack = <<>>

\* C8: the loop goes to GAME_OVER exactly when the position is terminal: it
\* is never at GAME_OVER with a non-terminal position, never at the prompt
\* with a terminal one, and a change of move_stack that leaves a terminal
\* position leads straight to GAME_OVER.
C8_GameOverIffTerminal ==
    [][/\ pc' \in {"game_over", "done"} => is_game_over(board')
       /\ pc' \in {"await_human", "validating", "handle", "reply_search", "reply_apply"}
             => ~is_game_over(board')
       /\ (move_stack' # move_stack /\ is_game_over(board')) => pc' = "game_over"]_vars

\* C8 witness: GAME_OVER reached by the break after a human ply
C8_Witness == pc = "game_over" /\ Last(turn.by) = "human" /\ Len(move_stack) >= 3

\* C9: the engine session is shut down exactly once when the run ends, on
\* the normal path and on an exit caused by an error.
C9_EngineQuitOnEveryExit ==
    pc \in {"done", "crashed"} => engine = "quit" /\ quits = 1

\* C10: with accuracy 100 no draw takes the weaker-move branch (no analysis
\* is requested and the best move is returned); with accuracy 0 every draw
\* takes it.
C10_AccuracyExtremes ==
    pc \in {"opening_apply", "reply_apply"} =>
        /\ accuracy = 100 => sel.queries = <<"play">> /\ sel.result = sel.best_move
        /\ accuracy = 0 => sel.queries = <<"play", "analyse">>

\* C10 witness: the lowest draw with accuracy 100, and a reply to choose
C10_Witness ==
    /\ pc = "reply_apply"
    /\ accuracy = 100
    /\ sel.draw = 0
    /\ Cardinality(legal_moves(board)) >= 2

HighlightedSquares ==
    { sq \in Squares :
        \E i \in 1 .. NumRanks, j \in 1 .. NumFiles :
            /\ console.table[i][j].highlight
            /\ sq = IF flip_board THEN square(NumFiles - j, i - 1)
                                  ELSE square(j - 1, NumRanks - i) }

\* C12: every render made while move_stack is not empty highlights exactly
\* the origin and the destination of the last entry of move_stack, the
\* render after a successful undo included; a render highlights nothing
\* only when no move is on the board.
C12_RenderHighlightsLastMove ==
    console.table # <<>> =>
        HighlightedSquares =
            IF move_stack = <<>> THEN {}
            ELSE {Last(move_stack).from_square, Last(move_stack).to_square}

\* C13: a rejected line changes nothing.  The step that prints the error
\* for a bad token, and every step that validated an earlier token of the
\* same line, leave the board, its side to move, move_stack and the table
\* on screen as they were, query no engine, return no move, and the
\* rejection goes back to the prompt.
C13_RejectedLineChangesNothing ==
    [][(AtPrompt /\ (pc' = "validating" \/ console'.out = <<"Invalid move.">>)) =>
          /\ board' = board
          /\ board'.turn = board.turn
          /\ move_stack' = move_stack
          /\ console'.table = console.table
          /\ sel = NoSel /\ sel' = NoSel
          /\ moves' = moves
          /\ engine' = engine
          /\ console'.out = <<"Invalid move.">> => pc' = "await_human" /\ valid_moves' = <<>>]_vars

\* C13 witness: back at the prompt after a line of two tokens was rejected,
\* the first a legal move and the second not, with the position and
\* move_stack of the completed turn before it still in place
C13_Witness ==
    /\ pc = "await_human"
    /\ console.out = <<"Invalid move.">>
    /\ Len(TokensOf(line)) = 2
    /\ ValidateToken(board, TokensOf(line)[1]) # InvalidMove
    /\ ValidateToken(board, TokensOf(line)[2]) = InvalidMove
    /\ Len(move_stack) = 2
    /\ board = Replay(move_stack)

\* a table with its rows and the cells of each row in reverse order
Reversed(table) ==
    [i \in 1 .. Len(table) |->
        [j \in 1 .. Len(table[Len(table) + 1 - i]) |->
            table[Len(table) + 1 - i][Len(table[Len(table) + 1 - i]) + 1 - j]]]

\* the moves print_board is called with for the position on the board: none,
\* or the last entry of move_stack
RenderMoves == {NoneMove} \cup (IF move_stack = <<>> THEN {} ELSE {Last(move_stack)})

\* C14: for the same board and last move, the table rendered with flip=True
\* is the table rendered with flip=False with its rows and its columns both
\* reversed: the first rank on top and the last file on the left, where
\* flip=False has the last rank on top and file a on the left.  The table on
\* screen is the one for the flip answer given.
C14_FlipReversesRowsAndColumns ==
    /\ \A m \in RenderMoves :
          /\ print_board(board, m, TRUE) = Reversed(print_board(board, m, FALSE))
          /\ print_board(board, m, FALSE)[1][1].symbol
                = board.placement[square(0, NumRanks - 1)]
          /\ print_board(board, m, TRUE)[1][1].symbol
                = board.placement[square(NumFiles - 1, 0)]
    /\ (console.table # <<>> /\ flip_board) =>
          \E m \in RenderMoves : console.table = Reversed(print_board(board, m, FALSE))
    /\ (console.table # <<>> /\ ~flip_board) =>
          \E m \in RenderMoves : console.table = print_board(board, m, FALSE)

\* C14 witness: a flipped table on screen, with the last move highlighted,
\* that differs from the table flipped in its rows alone
C14_Witness ==
    /\ flip_board
    /\ move_stack # <<>>
    /\ console.table = print_board(board, Last(move_stack), TRUE)
    /\ console.table # print_board(board, Last(move_stack), FALSE)
    /\ \E i \in 1 .. NumRanks :
          console.table[i] # print_board(board, Last(move_stack), FALSE)[NumRanks + 1 - i]

\* who makes the i-th ply of a game: the engine opens when it plays white
PlyOwner(i) ==
    IF (i % 2 = 1) = (stockfish_color = WHITE) THEN "engine" ELSE "human"

\* C15: at every prompt the side to move is the colour the engine does not
\* play; the engine has opened with one ply exactly when it plays white, and
\* the plies on the board alternate human, engine (an override standing for
\* the engine's ply).  An undo, done or refused, goes back to the prompt
\* with the same side to move, and the two plies it removes are the engine's
\* latest and the human's before it.
C15_HumanToMoveAtPrompt ==
    [][/\ pc' \in {"await_human", "validating", "handle"} =>
             /\ board'.turn = Opponent(stockfish_color')
             /\ Len(turn'.by) = Len(move_stack')
             /\ \A i \in 1 .. Len(turn'.by) :
                   IF PlyOwner(i)' = "engine" THEN turn'.by[i] \in {"engine", "override"}
                   ELSE turn'.by[i] = "human"
             /\ Len(move_stack') % 2 = (IF stockfish_color' = WHITE THEN 1 ELSE 0)
       /\ PlyApplied =>
             (board.turn = stockfish_color <=> pc \in {"opening_apply", "reply_apply"})
       /\ UndoStep =>
             /\ pc' = "await_human"
             /\ board'.turn = board.turn
             /\ Len(move_stack) >= 2 =>
                   /\ turn.by[Len(turn.by)] \in {"engine", "override"}
                   /\ turn.by[Len(turn.by) - 1] = "human"
                   /\ turn'.by = SubSeq(turn.by, 1, Len(turn.by) - 2)]_vars

\* C15 witness: the prompt after a successful undo with the engine as white,
\* its opening ply alone left on the board
C15_Witness ==
    /\ pc = "await_human"
    /\ stockfish_color = WHITE
    /\ console.out = <<"Last move undone.">>
    /\ Len(move_stack) = 1
    /\ turn.by = <<"engine">>

\* C16: every call of choose_suboptimal_move asks the engine for its best
\* move first; that is its only query when the draw is at or above
\* 1 - accuracy / 100, and it is followed by exactly one multipv analysis
\* when the draw is below, also when the list analysed is not used.
C16_QueriesPerCall ==
    pc \in {"opening_apply", "reply_apply"} =>
        /\ sel.draw \in 0 .. DrawRes - 1
        /\ Len(sel.queries) >= 1 /\ sel.queries[1] = "play"
        /\ 100 * sel.draw >= DrawRes * (100 - accuracy) => sel.queries = <<"play">>
        /\ 100 * sel.draw < DrawRes * (100 - accuracy)
              => sel.queries = <<"play", "analyse">>

\* C16 witness: a call that analysed a list of one candidate and returned
\* the best move of its first query
C16_Witness ==
    /\ pc = "reply_apply"
    /\ accuracy = 50
    /\ sel.queries = <<"play", "analyse">>
    /\ Len(sel.moves) = 1
    /\ sel.result = sel.best_move

\* C17: a human ply that leaves the game going is followed by one call of
\* choose_suboptimal_move, made whether or not the line carried an override;
\* the ply applied next is the second move of the line when there is one,
\* else the move the call returned, unless the run ends in a fatal error
\* before any ply is applied.  The moves of the line are dropped once the
\* reply is applied, and a human ply that ends the game is followed by no
\* call and no ply.
C17_ReplyIsOverrideOrSelected ==
    [][/\ (pc = "handle" /\ PlyApplied) =>
             /\ sel = NoSel /\ sel' = NoSel
             /\ pc' = IF is_game_over(board') THEN "game_over" ELSE "reply_search"
       /\ (pc = "reply_search" /\ pc' # pc) =>
             /\ move_stack' = move_stack /\ moves' = moves
             /\ \/ pc' = "reply_apply" /\ sel' \in Selections(board, accuracy)
                \/ pc' = "crashed" /\ sel' = NoSel
       /\ (pc = "reply_apply" /\ pc' # pc) =>
             LET reply == IF Len(moves) > 1 THEN moves[2] ELSE sel.result
             IN  \/ /\ move_stack' = Append(move_stack, reply)
                    /\ board' = push(board, reply)
                    /\ moves' = <<>> /\ sel' = NoSel
                    /\ pc' \in {"await_human", "game_over"}
                 \/ /\ pc' = "crashed"
                    /\ PushAsserts(board, reply)
                    /\ move_stack' = move_stack
       /\ pc' \in {"await_human", "validating"} => moves' = <<>>
       /\ pc \in {"game_over", "done"} => move_stack' = move_stack /\ sel' = NoSel]_vars

\* C17 witness: back at the prompt after an override was applied and
\* announced as the reply to the human's first ply, the line's moves dropped
C17_Witness ==
    /\ pc = "await_human"
    /\ stockfish_color = BLACK
    /\ Len(move_stack) = 2
    /\ turn.by = <<"human", "override">>
    /\ console.out = <<"Move overridden", "Engine played">>
    /\ moves = <<>>
    /\ sel = NoSel

\* C18: while the position is terminal the engine is asked for no move and
\* no ply is applied: a call of choose_suboptimal_move is made or pending
\* only on a position that is not terminal, every ply is pushed on such a
\* position, the player's ply that ends the game leads to GAME_OVER with no
\* call made, and the position an undo restores is not terminal.
C18_NothingOnTerminalPosition ==
    [][/\ pc \in {"opening_search", "opening_apply", "reply_search", "reply_apply"}
             => ~is_game_over(board)
       /\ sel' # sel => ~is_game_over(board)
       /\ PlyApplied => ~is_game_over(board)
       /\ (pc = "handle" /\ PlyApplied /\ is_game_over(board')) =>
             pc' = "game_over" /\ sel' = NoSel
       /\ (pc = "game_over" /\ pc' # pc) =>
             pc' = "done" /\ sel' = NoSel /\ board' = board
       /\ (UndoStep /\ Len(move_stack) >= 2) =>
             ~is_game_over(board') /\ pc' = "await_human"]_vars

\* C18 witness: the player, as white, has ended the game with a ply and
\* main() has left the loop with no call of the selector
C18_Witness ==
    /\ pc = "game_over"
    /\ stockfish_color = BLACK
    /\ turn.by[Len(turn.by)] = "human"
    /\ is_game_over(board)
    /\ sel = NoSel
    /\ moves # <<>>
====
